---- MODULE Spec2Model ----
(***************************************************************************)
(* OpenVpnCommand (src/src/process/openvpn.rs): the builder of an OpenVPN  *)
(* command line, its argument serialisation, its Display rendering and the *)
(* spawning of the child process.                                          *)
(*                                                                         *)
(* Texts (OsString, PathBuf, String, &str) are sequences of one-character  *)
(* strings, so that serialisation and rendering are computed character by  *)
(* character.  An Option is a sequence of length 0 (None) or 1 (Some).     *)
(***************************************************************************)
EXTENDS Integers, Sequences, FiniteSets, TLC

VARIABLES
  openvpn_bin,   \* OpenVpnCommand.openvpn_bin : OsString
  config,        \* OpenVpnCommand.config      : Option<PathBuf>
  remotes,       \* OpenVpnCommand.remotes     : Vec<RemoteAddr>
  plugin,        \* OpenVpnCommand.plugin      : Option<(PathBuf, Vec<String>)>
  pipe_output,   \* OpenVpnCommand.pipe_output : bool
  ret,           \* what the most recent call returned to its caller
  processes,     \* the OS process table: processes[pid] was created by a spawn
  handles,       \* the ClonableChild handles alive, each the pid it refers to
  os_attempts,   \* number of process creations asked of the OS so far
  os_result,     \* what the OS answered to the most recent of them
  resolved,      \* history: output of the most recent successful resolution
  capture_arg    \* history: argument of the most recent pipe_output call

builder == <<openvpn_bin, config, remotes, plugin, pipe_output>>
system == <<processes, handles, os_attempts, os_result>>
history == <<resolved, capture_arg>>
vars == <<openvpn_bin, config, remotes, plugin, pipe_output, ret,
          processes, handles, os_attempts, os_result, resolved, capture_arg>>

----------------------------------------------------------------------------
(* Bounds of the model. *)

\* longest collection of endpoint specifications given to remotes()
MaxRemotes == 2
\* longest plugin argument list given to plugin()
MaxPluginArgs == 2
\* process creations asked of the OS in one behaviour
MaxAttempts == 2
\* ClonableChild handles alive at once
MaxHandles == 3

----------------------------------------------------------------------------
(* Characters and texts. *)

Quote == "\""
Tab == "\t"
\* a byte that is valid in no UTF-8 sequence (0xFF), as an OsString may hold
BadByte == "\\xFF"
\* U+FFFD REPLACEMENT CHARACTER
Replacement == "U+FFFD"

\* char::is_whitespace, on the characters of the model
is_whitespace(c) == c \in {" ", Tab, "\n"}

\* OsStr::to_string_lossy: every invalid byte becomes U+FFFD
to_string_lossy(os) ==
  [i \in 1..Len(os) |-> IF os[i] = BadByte THEN Replacement ELSE os[i]]

\* str::contains(char::is_whitespace)
contains_whitespace(s) == \E i \in 1..Len(s) : is_whitespace(s[i])

DigitChars == <<"0", "1", "2", "3", "4", "5", "6", "7", "8", "9">>

\* u16::to_string: the decimal text of a port
RECURSIVE to_string(_)
to_string(n) ==
  IF n < 10 THEN <<DigitChars[n + 1]>>
  ELSE Append(to_string(n \div 10), DigitChars[(n % 10) + 1])

FlagConfig == <<"-", "-", "c", "o", "n", "f", "i", "g">>
FlagRemote == <<"-", "-", "r", "e", "m", "o", "t", "e">>
FlagPlugin == <<"-", "-", "p", "l", "u", "g", "i", "n">>

----------------------------------------------------------------------------
(* The inputs the operations are called with. *)

\* binaries given to new(): the empty path, and one with whitespace, a quote
\* and an invalid byte
Binaries == { <<>>, <<"o", " ", "v", Quote, BadByte>> }

\* paths given to config(): one with a tab, a quote and an invalid byte, and
\* one that reads like a flag
ConfigPaths == { <<"c", Tab, Quote, BadByte>>, FlagPlugin }

\* the path given to plugin(), with a space
PluginPaths == { <<"p", " ", "q">> }

\* plugin arguments: the empty text, and one that reads like a flag
ArgValues == { <<>>, FlagConfig }

RECURSIVE SeqsUpTo(_, _)
SeqsUpTo(S, n) ==
  IF n = 0 THEN { <<>> }
  ELSE LET shorter == SeqsUpTo(S, n - 1)
       IN  shorter \cup { Append(s, x) : s \in { t \in shorter : Len(t) = n - 1 }, x \in S }

PluginArgLists == SeqsUpTo(ArgValues, MaxPluginArgs)

\* RemoteAddr::new(address, port)
RemoteAddr(address, port) == [address |-> address, port |-> port]

NoAddr == RemoteAddr(<<>>, 0)

\* what remotes() is given: RemoteAddr values and specification strings
AddrItem(a) == [kind |-> "RemoteAddr", addr |-> a, text |-> <<>>]
StrItem(t) == [kind |-> "str", addr |-> NoAddr, text |-> t]

SpecItems ==
  { AddrItem(RemoteAddr(<<"f", "e", "8", "0", ":", ":", "1">>, 1337)),
    StrItem(<<"1", "0", ".", "0", ".", "0", ".", "1", ":", "0">>),
    StrItem(<<"1", "0", ".", "0", ".", "0", ".", "1">>) }

RemoteSpecs == SeqsUpTo(SpecItems, MaxRemotes)

OsErrors == { "NotFound", "PermissionDenied", "WouldBlock" }
OsOutcomes == { "Ok" } \cup OsErrors

----------------------------------------------------------------------------
(* The Endpoint Resolver (net::ToRemoteAddrs), which remotes() calls: a      *)
(* RemoteAddr resolves to itself, a string "host:port" is split at its last  *)
(* colon, and a collection fails as a whole when any one entry is malformed. *)

IsDigit(c) == \E d \in 1..10 : DigitChars[d] = c

DigitValue(c) == (CHOOSE d \in 1..10 : DigitChars[d] = c) - 1

\* the number a text of digits denotes (digits only)
RECURSIVE DecimalValue(_)
DecimalValue(t) ==
  IF t = <<>> THEN 0
  ELSE 10 * DecimalValue(SubSeq(t, 1, Len(t) - 1)) + DigitValue(t[Len(t)])

\* index of the last colon of a text, 0 when it has none
LastColon(t) ==
  IF \E i \in 1..Len(t) : t[i] = ":"
  THEN CHOOSE i \in 1..Len(t) : t[i] = ":" /\ \A j \in (i + 1)..Len(t) : t[j] # ":"
  ELSE 0

\* one specification string: [ok, addr]
parse_remote(t) ==
  LET c == LastColon(t)
      host == SubSeq(t, 1, c - 1)
      port == SubSeq(t, c + 1, Len(t))
      wellformed ==
        /\ c > 1
        /\ port # <<>>
        /\ Len(port) <= 5
        /\ \A i \in 1..Len(port) : IsDigit(port[i])
  IN  IF wellformed /\ DecimalValue(port) <= 65535
      THEN [ok |-> TRUE, addr |-> RemoteAddr(host, DecimalValue(port))]
      ELSE [ok |-> FALSE, addr |-> NoAddr]

resolve_item(item) ==
  IF item.kind = "RemoteAddr" THEN [ok |-> TRUE, addr |-> item.addr]
  ELSE parse_remote(item.text)

\* ToRemoteAddrs::to_remote_addrs: io::Result of the resolved endpoints, in order
to_remote_addrs(spec) ==
  IF \A i \in 1..Len(spec) : resolve_item(spec[i]).ok
  THEN [ok |-> TRUE, addrs |-> [i \in 1..Len(spec) |-> resolve_item(spec[i]).addr]]
  ELSE [ok |-> FALSE, addrs |-> <<>>]

----------------------------------------------------------------------------
(* What a call returns. *)

Ret(op, ok, args, text, child, err) ==
  [op |-> op, ok |-> ok, args |-> args, text |-> text, child |-> child, err |-> err,
   status |-> ""]

\* a setter returns &mut Self
RetSelf(op) == Ret(op, TRUE, <<>>, <<>>, 0, "")

----------------------------------------------------------------------------
(* OpenVpnCommand::get_arguments *)

push_config(args) ==
  IF config # <<>>
  THEN (args \o <<FlagConfig>>) \o <<config[1]>>
  ELSE args

\* push_remotes, were an endpoint equal to the one after it emitted once
RECURSIVE push_remotes_dedup(_, _)
push_remotes_dedup(args, rs) ==
  IF rs = <<>> THEN args
  ELSE IF Len(rs) > 1 /\ rs[1] = rs[2] THEN push_remotes_dedup(args, Tail(rs))
  ELSE push_remotes_dedup(
         ((args \o <<FlagRemote>>) \o <<Head(rs).address>>) \o <<to_string(Head(rs).port)>>,
         Tail(rs))

RECURSIVE push_remotes(_, _)
push_remotes(args, rs) ==
  IF rs = <<>> THEN args
  ELSE push_remotes(
         ((args \o <<FlagRemote>>) \o <<Head(rs).address>>) \o <<to_string(Head(rs).port)>>,
         Tail(rs))

push_plugin(args) ==
  IF plugin # <<>>
  THEN ((args \o <<FlagPlugin>>) \o <<plugin[1].path>>) \o plugin[1].args
  ELSE args

\* get_arguments, were the plugin pushed before the remotes
get_arguments_plugin_first == push_remotes(push_plugin(push_config(<<>>)), remotes)

get_arguments == push_plugin(push_remotes(push_config(<<>>), remotes))

----------------------------------------------------------------------------
(* impl fmt::Display for OpenVpnCommand, written to a String (to_string()) *)

\* a Formatter over a String: the text written so far, and whether a write failed
Formatter == [ok |-> TRUE, buf |-> <<>>]

\* Formatter::write_str followed by `?`: nothing is written after a failure;
\* String's write_str itself always returns Ok
write_str(fmt, s) == IF fmt.ok THEN [fmt EXCEPT !.buf = @ \o s] ELSE fmt

\* write_argument, were only the space taken for whitespace
write_argument_space_only(fmt, arg) ==
  LET f1 == write_str(fmt, <<" ">>)
      quote == \E i \in 1..Len(arg) : arg[i] = " "
      f2 == IF quote THEN write_str(f1, <<Quote>>) ELSE f1
      f3 == write_str(f2, arg)
  IN  IF quote THEN write_str(f3, <<Quote>>) ELSE f3

write_argument(fmt, arg) ==
  LET f1 == write_str(fmt, <<" ">>)
      quote == contains_whitespace(arg)
      f2 == IF quote THEN write_str(f1, <<Quote>>) ELSE f1
      f3 == write_str(f2, arg)
  IN  IF quote THEN write_str(f3, <<Quote>>) ELSE f3

RECURSIVE write_arguments(_, _)
write_arguments(fmt, args) ==
  IF args = <<>> THEN fmt
  ELSE write_arguments(write_argument(fmt, to_string_lossy(Head(args))), Tail(args))

fmt == write_arguments(write_str(Formatter, to_string_lossy(openvpn_bin)), get_arguments)

----------------------------------------------------------------------------
(* The builder's operations. *)

\* OpenVpnCommand::new(openvpn_bin)
new(bin) ==
  /\ openvpn_bin = bin
  /\ config = <<>>
  /\ remotes = <<>>
  /\ plugin = <<>>
  /\ pipe_output = TRUE

Config(path) ==
  /\ config' = <<path>>
  /\ ret' = RetSelf("config")
  /\ UNCHANGED <<openvpn_bin, remotes, plugin, pipe_output, system, history>>

\* remotes(), were the entries before the first malformed one applied
remotes_assign_partial(old, spec) ==
  LET r == to_remote_addrs(spec)
      bad == CHOOSE i \in 1..Len(spec) :
               /\ ~resolve_item(spec[i]).ok
               /\ \A j \in 1..(i - 1) : resolve_item(spec[j]).ok
  IN  IF r.ok THEN r.addrs
      ELSE [i \in 1..(bad - 1) |-> resolve_item(spec[i]).addr]

\* remotes(), were the resolved endpoints added to those already there
remotes_assign_append(old, spec) ==
  LET r == to_remote_addrs(spec)
  IN  IF r.ok THEN old \o r.addrs ELSE old

\* self.remotes = remotes.to_remote_addrs()?.collect();
remotes_assign(old, spec) ==
  LET r == to_remote_addrs(spec)
  IN  IF r.ok THEN r.addrs ELSE old

Remotes(spec) ==
  LET r == to_remote_addrs(spec)
  IN  /\ remotes' = remotes_assign(remotes, spec)
      /\ ret' = IF r.ok THEN RetSelf("remotes")
                ELSE Ret("remotes", FALSE, <<>>, <<>>, 0, "InvalidInput")
      /\ resolved' = IF r.ok THEN r.addrs ELSE resolved
      /\ UNCHANGED <<openvpn_bin, config, plugin, pipe_output, system, capture_arg>>

\* plugin(), were the path stored as the config too
Plugin_sets_config(path, args) ==
  /\ plugin' = <<[path |-> path, args |-> args]>>
  /\ config' = <<path>>
  /\ ret' = RetSelf("plugin")
  /\ UNCHANGED <<openvpn_bin, remotes, pipe_output, system, history>>

Plugin(path, args) ==
  /\ plugin' = <<[path |-> path, args |-> args]>>
  /\ ret' = RetSelf("plugin")
  /\ UNCHANGED <<openvpn_bin, config, remotes, pipe_output, system, history>>

PipeOutput(b) ==
  /\ pipe_output' = b
  /\ ret' = RetSelf("pipe_output")
  /\ capture_arg' = b
  /\ UNCHANGED <<openvpn_bin, config, remotes, plugin, system, resolved>>

GetArguments ==
  /\ ret' = Ret("get_arguments", TRUE, get_arguments, <<>>, 0, "")
  /\ UNCHANGED <<builder, system, history>>

\* to_string(), which calls Display::fmt with a Formatter over a new String
Display ==
  /\ ret' = Ret("fmt", fmt.ok, <<>>, fmt.buf, 0, "")
  /\ UNCHANGED <<builder, system, history>>

----------------------------------------------------------------------------
(* The builder alone: every setter, get_arguments and Display. *)

InitWith(bins) ==
  /\ \E bin \in bins : new(bin)
  /\ ret = RetSelf("new")
  /\ processes = <<>>
  /\ handles = <<>>
  /\ os_attempts = 0
  /\ os_result = "none"
  /\ resolved = <<>>
  /\ capture_arg = TRUE

Init == InitWith(Binaries)

Next ==
  \/ \E path \in ConfigPaths : Config(path)
  \/ \E spec \in RemoteSpecs : Remotes(spec)
  \/ \E path \in PluginPaths, args \in PluginArgLists : Plugin(path, args)
  \/ \E b \in BOOLEAN : PipeOutput(b)
  \/ GetArguments
  \/ Display

Spec == Init /\ [][Next]_vars

----------------------------------------------------------------------------
(* OpenVpnCommand::spawn and the process it creates. *)

get_output_pipe_policy == IF pipe_output THEN "piped" ELSE "null"

\* create_command, were the standard error always piped
create_command_stderr_piped ==
  [program |-> openvpn_bin,
   args |-> <<>>,
   stdin |-> "null",
   stdout |-> get_output_pipe_policy,
   stderr |-> "piped"]

\* Command::new(&self.openvpn_bin) with its three standard streams set
create_command ==
  [program |-> openvpn_bin,
   args |-> <<>>,
   stdin |-> "null",
   stdout |-> get_output_pipe_policy,
   stderr |-> get_output_pipe_policy]

\* the command of spawn(), were the arguments of the first spawn kept for
\* the later ones
spawn_command_cached ==
  [create_command EXCEPT
     !.args = IF processes = <<>> THEN get_arguments ELSE processes[1].args]

\* the command spawn() hands to the OS: create_command() with get_arguments()
spawn_command == [create_command EXCEPT !.args = @ \o get_arguments]

\* the process the OS creates for a command
Process(command) ==
  [program |-> command.program,
   args |-> command.args,
   stdin |-> command.stdin,
   stdout |-> command.stdout,
   stderr |-> command.stderr,
   alive |-> TRUE]

\* Command::spawn: one process creation asked of the OS, which answers os
Command_spawn(command, os) ==
  /\ os_attempts' = os_attempts + 1
  /\ os_result' = os
  /\ processes' = IF os = "Ok" THEN Append(processes, Process(command)) ELSE processes

\* io::Result<Child> of a spawn that the OS answered with os
spawn_ret(op, os) ==
  IF os = "Ok" THEN Ret(op, TRUE, <<>>, <<>>, Len(processes) + 1, "")
  ELSE Ret(op, FALSE, <<>>, <<>>, 0, os)

\* OpenVpnCommand::spawn, were a refused process creation tried once more
OpenVpnCommand_spawn_retry(os) ==
  /\ os_attempts < MaxAttempts
  /\ IF os = "Ok"
     THEN /\ os_attempts' = os_attempts + 1
          /\ processes' = Append(processes, Process(spawn_command))
     ELSE /\ os_attempts' = os_attempts + 2
          /\ processes' = processes
  /\ os_result' = os
  /\ UNCHANGED <<builder, history>>

\* OpenVpnCommand::spawn(&self): what it does to the builder and to the OS
OpenVpnCommand_spawn(os) ==
  /\ os_attempts < MaxAttempts
  /\ Command_spawn(spawn_command, os)
  /\ UNCHANGED <<builder, history>>

\* a call of OpenVpnCommand::spawn, which returns the io::Result<Child>
spawn(os) ==
  /\ OpenVpnCommand_spawn(os)
  /\ ret' = spawn_ret("spawn", os)
  /\ UNCHANGED handles

\* ChildSpawner::spawn, were the process spawned again to make the handle
ChildSpawner_spawn_twice(os) ==
  /\ Len(handles) < MaxHandles
  /\ os_attempts < MaxAttempts
  /\ os_attempts' = os_attempts + 1
  /\ os_result' = os
  /\ processes' = IF os = "Ok"
                  THEN Append(Append(processes, Process(spawn_command)), Process(spawn_command))
                  ELSE processes
  /\ ret' = spawn_ret("ChildSpawner::spawn", os)
  /\ handles' = IF os = "Ok" THEN Append(handles, Len(processes) + 2) ELSE handles
  /\ UNCHANGED <<builder, history>>

\* <OpenVpnCommand as ChildSpawner>::spawn: OpenVpnCommand::spawn(self), and on
\* success the Child made a ClonableChild (into_clonable)
ChildSpawner_spawn(os) ==
  /\ Len(handles) < MaxHandles
  /\ OpenVpnCommand_spawn(os)
  /\ ret' = spawn_ret("ChildSpawner::spawn", os)
  /\ handles' = IF os = "Ok" THEN Append(handles, Len(processes) + 1) ELSE handles

----------------------------------------------------------------------------
(* The ClonableChild handle (crate clonablechild), used by its holders: a   *)
(* clone is one more reference to the same process.                         *)

Clone(h) ==
  /\ Len(handles) < MaxHandles
  /\ handles' = Append(handles, handles[h])
  /\ ret' = Ret("clone", TRUE, <<>>, <<>>, handles[h], "")
  /\ UNCHANGED <<builder, processes, os_attempts, os_result, history>>

Kill(h) ==
  /\ processes' = [processes EXCEPT ![handles[h]].alive = FALSE]
  /\ ret' = Ret("kill", TRUE, <<>>, <<>>, handles[h], "")
  /\ UNCHANGED <<builder, handles, os_attempts, os_result, history>>

\* the process ends by itself
Exit(pid) ==
  /\ processes[pid].alive
  /\ processes' = [processes EXCEPT ![pid].alive = FALSE]
  /\ UNCHANGED <<builder, ret, handles, os_attempts, os_result, history>>

\* the status query of a holder
TryWait(h) ==
  /\ ret' = [Ret("try_wait", TRUE, <<>>, <<>>, handles[h], "")
               EXCEPT !.status = IF processes[handles[h]].alive THEN "running" ELSE "exited"]
  /\ UNCHANGED <<builder, system, history>>

----------------------------------------------------------------------------
(* The builder and the processes it spawns: setters between spawns. *)
(* plugin() is left to the builder's own specification.            *)

SpawnBinaries == { <<"o", " ", "v">> }

SpawnConfigPaths == { <<"c">> }

SpawnRemoteSpecs ==
  { <<>>,
    <<AddrItem(RemoteAddr(<<":", ":", "1">>, 99))>>,
    <<StrItem(<<":", ":", "1">>)>> }

SpawnPluginArgLists == { <<<<"x", " ", "y">>>> }

InitSpawn == InitWith(SpawnBinaries)

NextSpawn ==
  \/ \E path \in SpawnConfigPaths : Config(path)
  \/ \E spec \in SpawnRemoteSpecs : Remotes(spec)
  \/ \E b \in BOOLEAN : PipeOutput(b)
  \/ \E os \in OsOutcomes : spawn(os)

SpecSpawn == InitSpawn /\ [][NextSpawn]_vars

----------------------------------------------------------------------------
(* The spawned processes and the holders of their handles. *)

NextHandle ==
  \/ \E os \in OsOutcomes : ChildSpawner_spawn(os)
  \/ \E h \in 1..Len(handles) : Clone(h)
  \/ \E h \in 1..Len(handles) : Kill(h)
  \/ \E h \in 1..Len(handles) : TryWait(h)
  \/ \E pid \in 1..Len(processes) : Exit(pid)

SpecHandle == InitSpawn /\ [][NextHandle]_vars

----------------------------------------------------------------------------
(* Properties of the builder, checked under Spec. *)

ConfigBlockLen == IF config = <<>> THEN 0 ELSE 2

PluginBlockLen == IF plugin = <<>> THEN 0 ELSE 2 + Len(plugin[1].args)

\* t is the decimal text of n: digits only, no leading zero, denoting n
IsDecimalOf(t, n) ==
  /\ t # <<>>
  /\ \A i \in 1..Len(t) : IsDigit(t[i])
  /\ (Len(t) > 1 => t[1] # "0")
  /\ DecimalValue(t) = n

\* a is the three blocks, in the fixed order, of the builder's current fields
ArgumentGrammar(a) ==
  LET c == ConfigBlockLen
      r == 3 * Len(remotes)
  IN  /\ Len(a) = (c + r) + PluginBlockLen
      /\ config # <<>> => a[1] = FlagConfig /\ a[2] = config[1]
      /\ \A i \in 1..Len(remotes) :
           /\ a[c + 3 * i - 2] = FlagRemote
           /\ a[c + 3 * i - 1] = remotes[i].address
           /\ IsDecimalOf(a[c + 3 * i], remotes[i].port)
      /\ plugin # <<>> =>
           /\ a[c + r + 1] = FlagPlugin
           /\ a[c + r + 2] = plugin[1].path
           /\ SubSeq(a, c + r + 3, Len(a)) = plugin[1].args
      /\ (config = <<>> /\ remotes = <<>> /\ plugin = <<>>) => a = <<>>

\* C1: whatever setters were called and in whatever order, get_arguments is
\* the config block, then one block per remote, then the plugin block, each
\* present only when its field is set, and empty when none is set, whatever
\* the binary; and that is what a get_arguments() call returned.
C1_ArgumentsAreTheThreeBlocks ==
  /\ ArgumentGrammar(get_arguments)
  /\ ret.op = "get_arguments" => ArgumentGrammar(ret.args)

\* config() was the last call, made with remotes and a plugin (with arguments)
\* already set, and the config block still comes first
C1_Witness ==
  /\ ret.op = "config"
  /\ Len(remotes) = 2
  /\ plugin # <<>> /\ Len(plugin[1].args) = 2
  /\ get_arguments[1] = FlagConfig
  /\ get_arguments[9] = FlagPlugin

\* the tokens get_arguments emits for remotes: those between the config block
\* and the plugin block
RemoteTokens(a) == SubSeq(a, ConfigBlockLen + 1, Len(a) - PluginBlockLen)

\* C2: with [e1..eN] the output of the last successful resolution, the tokens
\* emitted for remotes are N triples, the i-th being --remote, the address of
\* ei, the decimal port of ei: nothing reordered, nothing deduplicated.
C2_RemotesInResolutionOrder ==
  LET seg == RemoteTokens(get_arguments)
      N == Len(resolved)
  IN  /\ Len(seg) = 3 * N
      /\ Cardinality({k \in 1..Len(seg) : k % 3 = 1 /\ seg[k] = FlagRemote}) = N
      /\ \A i \in 1..N :
           /\ seg[3 * i - 2] = FlagRemote
           /\ seg[3 * i - 1] = resolved[i].address
           /\ IsDecimalOf(seg[3 * i], resolved[i].port)

\* the same endpoint was resolved twice in a row, after another one in a
\* collection, and get_arguments() was called
C2_Witness ==
  /\ ret.op = "get_arguments"
  /\ Len(resolved) = 2
  /\ resolved[1] = resolved[2]
  /\ Len(RemoteTokens(ret.args)) = 6

\* C3: a remotes() call that fails returns an error and leaves every field of
\* the builder, and so get_arguments, as it was before the call.
C3_FailedRemotesChangesNothing ==
  [][(ret'.op = "remotes" /\ ~ret'.ok) =>
       /\ ret'.err # ""
       /\ UNCHANGED builder
       /\ get_arguments' = get_arguments]_vars

\* a remotes() call failed on a builder that had remotes and a config set
C3_Witness ==
  /\ ret.op = "remotes"
  /\ ~ret.ok
  /\ Len(remotes) = 2
  /\ config # <<>>

\* the (address, port text) pairs get_arguments emits for remotes
EmittedEndpoints(a) ==
  LET seg == RemoteTokens(a)
  IN  { <<seg[3 * i - 1], seg[3 * i]>> : i \in 1..(Len(seg) \div 3) }

\* C4: remotes is the output of the most recent successful resolution only
\* (empty if there was none, or if that output was empty), and get_arguments
\* emits no endpoint that is not in it.
C4_RemotesReplaced ==
  /\ remotes = resolved
  /\ EmittedEndpoints(get_arguments) =
       { <<resolved[i].address, to_string(resolved[i].port)>> : i \in 1..Len(resolved) }
  /\ (ret.op = "remotes" /\ ret.ok /\ resolved = <<>>) => RemoteTokens(get_arguments) = <<>>

\* a successful remotes() call left exactly one endpoint
C4_Witness ==
  /\ ret.op = "remotes"
  /\ ret.ok
  /\ Len(remotes) = 1
  /\ Len(get_arguments) = 3

Contains(a, token) == \E i \in 1..Len(a) : a[i] = token

\* how Display renders one token
RenderedField(token) ==
  LET t == to_string_lossy(token)
  IN  IF \E i \in 1..Len(t) : is_whitespace(t[i])
      THEN (<<" ", Quote>> \o t) \o <<Quote>>
      ELSE <<" ">> \o t

RECURSIVE RenderedFields(_)
RenderedFields(tokens) ==
  IF tokens = <<>> THEN <<>>
  ELSE RenderedFields(SubSeq(tokens, 1, Len(tokens) - 1)) \o RenderedField(tokens[Len(tokens)])

FrameStep ==
  /\ openvpn_bin' = openvpn_bin
  /\ ret'.op = "config" => UNCHANGED <<remotes, plugin, pipe_output>>
  /\ ret'.op = "remotes" => UNCHANGED <<config, plugin, pipe_output>>
  /\ ret'.op = "plugin" => UNCHANGED <<config, remotes, pipe_output>>
  /\ ret'.op = "pipe_output" => UNCHANGED <<config, remotes, plugin>>
  /\ ret'.op \in {"get_arguments", "fmt"} => UNCHANGED builder
  /\ ret'.op = "get_arguments" => ret'.args = get_arguments'

\* C10 as stated: the frame conditions, and a --config (--plugin) token, once
\* in get_arguments, is in it ever after.
C10_AsStated ==
  [][/\ FrameStep
     /\ Contains(get_arguments, FlagConfig) => Contains(get_arguments', FlagConfig)
     /\ Contains(get_arguments, FlagPlugin) => Contains(get_arguments', FlagPlugin)]_vars

\* C10, amended: the frame conditions, and once config (plugin) is set it
\* stays set, so the --config (--plugin) flag emitted for it stays at the head
\* of its block in get_arguments ever after.
C10_FrameAndFlagsStay ==
  [][/\ FrameStep
     /\ config # <<>> =>
          /\ config' # <<>>
          /\ get_arguments'[1] = FlagConfig
     /\ plugin # <<>> =>
          /\ plugin' # <<>>
          /\ get_arguments'[Len(get_arguments') - PluginBlockLen' + 1] = FlagPlugin]_vars

\* plugin() was the last call, on a builder with config and remotes set
C10_Witness ==
  /\ ret.op = "plugin"
  /\ config # <<>>
  /\ remotes # <<>>
  /\ pipe_output = FALSE

----------------------------------------------------------------------------
(* Properties of spawning, checked under SpecSpawn. *)

\* a step in which a process creation was asked of the OS
SpawnStep == os_attempts' # os_attempts

\* the two ways spawn is called: the inherent method and ChildSpawner's
SpawnOps == {"spawn", "ChildSpawner::spawn"}

\* every operation of the builder can be called
NoTerminalState ==
  /\ \A path \in SpawnConfigPaths : ENABLED Config(path)
  /\ \A spec \in SpawnRemoteSpecs : ENABLED Remotes(spec)
  /\ \A path \in PluginPaths, args \in SpawnPluginArgLists : ENABLED Plugin(path, args)
  /\ \A b \in BOOLEAN : ENABLED PipeOutput(b)
  /\ ENABLED GetArguments
  /\ os_attempts < MaxAttempts => \A os \in OsOutcomes : ENABLED spawn(os)

\* C5: spawn() leaves the builder as it was, failing or not, and every
\* operation stays callable after it; a successful spawn() adds one process,
\* with a pid no earlier process has, whose program and arguments are the
\* binary and get_arguments of the builder at the call; the processes created
\* earlier are not touched, by a spawn or by a later change of the builder.
C5_SpawnLeavesBuilderUsable ==
  /\ []NoTerminalState
  /\ [][/\ SpawnStep =>
             /\ UNCHANGED builder
             /\ ret'.op \in SpawnOps
             /\ ret'.ok =>
                  /\ Len(processes') = Len(processes) + 1
                  /\ ret'.child = Len(processes')
                  /\ ret'.child \notin 1..Len(processes)
                  /\ processes'[ret'.child].program = openvpn_bin
                  /\ processes'[ret'.child].args = get_arguments
             /\ ~ret'.ok => Len(processes') = Len(processes)
        /\ ~SpawnStep => Len(processes') = Len(processes)
        /\ \A pid \in 1..Len(processes) : processes'[pid] = processes[pid]]_vars

\* a second process was spawned after the builder was changed: its arguments
\* are those of the builder now, the first keeps those it was spawned with
C5_Witness ==
  /\ ret.op = "spawn"
  /\ ret.ok
  /\ ret.child = 2
  /\ processes[2].args = get_arguments
  /\ processes[1].args # processes[2].args
  /\ Len(processes[1].args) = 2

\* C6: every process has its standard input on the null stream and its
\* standard output and error on the same stream as each other, the pipe when
\* pipe_output was true at its spawn and the null sink when it was false;
\* pipe_output is true on a new builder and after that the argument of the
\* most recent pipe_output() call.
C6_StandardStreams ==
  /\ [](/\ pipe_output = capture_arg
        /\ ret.op = "new" => pipe_output
        /\ \A pid \in 1..Len(processes) :
             /\ processes[pid].stdin = "null"
             /\ processes[pid].stdout = processes[pid].stderr
             /\ processes[pid].stdout \in {"piped", "null"})
  /\ [][(SpawnStep /\ ret'.ok) =>
          /\ pipe_output => processes'[ret'.child].stdout = "piped"
          /\ ~pipe_output => processes'[ret'.child].stdout = "null"]_vars

\* one process spawned while pipe_output was true, the next after
\* pipe_output(false)
C6_Witness ==
  /\ Len(processes) = 2
  /\ processes[1].stdout = "piped" /\ processes[1].stderr = "piped"
  /\ processes[2].stdout = "null" /\ processes[2].stderr = "null"
  /\ ~pipe_output
  /\ ret.op = "spawn"

\* C9: a spawn() call asks the OS for one process creation; when the OS
\* refuses, the call returns that OS error, no child, and no process exists
\* that did not before; when the OS accepts, the process runs the builder's
\* binary.  A later call is a new attempt.
C9_OneAttemptPerSpawn ==
  [][/\ (ret'.op \in SpawnOps /\ ret' # ret) => os_attempts' = os_attempts + 1
     /\ SpawnStep =>
          /\ os_attempts' = os_attempts + 1
          /\ ret'.op \in SpawnOps
          /\ os_result' \in OsErrors =>
               /\ ~ret'.ok
               /\ ret'.err = os_result'
               /\ ret'.child = 0
               /\ processes' = processes
               /\ handles' = handles
          /\ os_result' = "Ok" =>
               /\ ret'.ok
               /\ ret'.err = ""
               /\ Len(processes') = Len(processes) + 1
               /\ processes'[ret'.child].program = openvpn_bin]_vars

\* a spawn() the OS refused, then a spawn() on the same builder that succeeded
C9_Witness ==
  /\ ret.op = "spawn"
  /\ ret.ok
  /\ os_attempts = 2
  /\ Len(processes) = 1

----------------------------------------------------------------------------
(* Properties of the handles, checked under SpecHandle. *)

\* C8: a successful spawn creates one process and returns one handle to it;
\* no other operation creates a process, so the processes ever created are as
\* many as the successful spawns; a clone refers to the process of the handle
\* it was cloned from; a process killed through one handle is seen as exited
\* by the status query of every holder, and stays so.
C8_HandlesShareOneProcess ==
  /\ [](\A h \in 1..Len(handles) : handles[h] \in 1..Len(processes))
  /\ [][/\ (SpawnStep /\ ret'.ok) =>
             /\ Len(processes') = Len(processes) + 1
             /\ ret'.child = Len(processes')
             /\ handles' = Append(handles, ret'.child)
        /\ ~(SpawnStep /\ ret'.ok) => Len(processes') = Len(processes)
        /\ Len(handles') # Len(handles) =>
             \/ SpawnStep /\ ret'.ok
             \/ /\ ret'.op = "clone"
                /\ \E h \in 1..Len(handles) : handles' = Append(handles, handles[h])
                /\ ret'.child = handles'[Len(handles')]
                /\ processes' = processes
        /\ ret'.op = "kill" =>
             \A h \in 1..Len(handles') :
               handles'[h] = ret'.child => ~processes'[handles'[h]].alive
        /\ (ret'.op = "try_wait" /\ processes' = processes) =>
             /\ \E h \in 1..Len(handles) : handles[h] = ret'.child
             /\ ret'.status = "exited" <=> ~processes[ret'.child].alive
        /\ \A pid \in 1..Len(processes) : ~processes[pid].alive => ~processes'[pid].alive]_vars

\* a process with two handles was killed and a status query answered
\* "exited", while another process is still running
C8_Witness ==
  /\ ret.op = "try_wait"
  /\ ret.status = "exited"
  /\ Cardinality({h \in 1..Len(handles) : handles[h] = ret.child}) = 2
  /\ \E pid \in 1..Len(processes) : processes[pid].alive
  /\ os_attempts = Len(processes)

====
